---- MODULE Spec2Model ----
(***************************************************************************)
(* Model of src/00_triangle.cpp: the HelloTriangleApp lifecycle            *)
(* (window -> instance -> debug messenger -> event loop -> cleanup) and    *)
(* main's exception handling.  The windowing library and the Vulkan driver *)
(* are the environment: what they return is chosen nondeterministically,   *)
(* every call the program makes to them is appended to `calls`.            *)
(***************************************************************************)
EXTENDS Integers, Sequences, FiniteSets, TLC

\* ------------------------------------------------------------------ bounds
MaxPolls == 2        \* glfwPollEvents iterations that leave the window open
MaxCallbacks == 2    \* debug_callback invocations by the driver

\* --------------------------------------------------------------- constants
VK_SUCCESS == 0
VK_FALSE == 0
EXIT_SUCCESS == 0
EXIT_FAILURE == 1
NotExited == 0 - 1   \* exit_code before the process has returned from main

VK_ERROR_EXTENSION_NOT_PRESENT == 0 - 7

VK_EXT_DEBUG_UTILS_EXTENSION_NAME == "VK_EXT_debug_utils"

validation_layers == <<"VK_LAYER_KHRONOS_validation">>

\* ------------------------------------------------------------- environment
\* Result codes the driver may hand back: success, known positive and
\* negative codes, and codes vk_result_error_message has no case for.
DriverResults == {0, 1, 5, 0 - 1, 0 - 3, 0 - 7, 0 - 9, 7, 0 - 12, 0 - 1000001004}

\* vkEnumerateInstanceLayerProperties outcomes
LayerInventories ==
    { <<>>,
      <<"VK_LAYER_KHRONOS_validation">>,
      <<"VK_LAYER_LUNARG_api_dump">>,
      <<"VK_LAYER_LUNARG_api_dump", "VK_LAYER_KHRONOS_validation">> }

\* glfwGetRequiredInstanceExtensions outcomes
GlfwExtensionLists ==
    { <<>>,
      <<"VK_KHR_surface">>,
      <<"VK_KHR_surface", "VK_KHR_xcb_surface">> }

\* vkEnumerateInstanceExtensionProperties outcomes
DriverExtensionLists ==
    { <<>>, <<"VK_KHR_surface", "VK_EXT_debug_utils">> }

\* pMessage values the driver passes to the callback
DriverMessages == {"msg"}

VARIABLES
    enable_validation_layers,  \* build-time switch (NDEBUG)
    available_layers,          \* what the host has installed
    glfw_extensions,           \* what the windowing library requires
    pc,                        \* position in main / run
    window, instance, debug_messenger,   \* the three handles
    close_requested,           \* glfwWindowShouldClose(window)
    polls, callbacks,          \* counters for the bounds
    calls,                     \* calls made to the collaborators, in order
    exception,                 \* the std::runtime_error in flight
    stderr_lines, stdout_lines,
    callback_result,           \* last value debug_callback returned
    exit_code

vars == << enable_validation_layers, available_layers, glfw_extensions, pc,
           window, instance, debug_messenger, close_requested, polls,
           callbacks, calls, exception, stderr_lines, stdout_lines,
           callback_result, exit_code >>

env == << enable_validation_layers, available_layers, glfw_extensions >>

\* -------------------------------------------------------------- helpers
Line(prefix, detail) == [prefix |-> prefix, detail |-> detail]

NoException == Line("", "")

Call(op, name, layers, extensions, result) ==
    [op |-> op, name |-> name, layers |-> layers,
     extensions |-> extensions, result |-> result]

SimpleCall(op) == Call(op, "", <<>>, <<>>, VK_SUCCESS)

\* a switch in which no case label matches: everything takes the default
vk_result_error_message_default(errorCode) == "UNKNOWN_ERROR"

\* std::string vk_result_error_message(VkResult)
vk_result_error_message(errorCode) ==
    CASE errorCode = 1 -> "NOT_READY"
      [] errorCode = 2 -> "TIMEOUT"
      [] errorCode = 3 -> "EVENT_SET"
      [] errorCode = 4 -> "EVENT_RESET"
      [] errorCode = 5 -> "INCOMPLETE"
      [] errorCode = 0 - 1 -> "ERROR_OUT_OF_HOST_MEMORY"
      [] errorCode = 0 - 2 -> "ERROR_OUT_OF_DEVICE_MEMORY"
      [] errorCode = 0 - 3 -> "ERROR_INITIALIZATION_FAILED"
      [] errorCode = 0 - 4 -> "ERROR_DEVICE_LOST"
      [] errorCode = 0 - 5 -> "ERROR_MEMORY_MAP_FAILED"
      [] errorCode = 0 - 6 -> "ERROR_LAYER_NOT_PRESENT"
      [] errorCode = 0 - 7 -> "ERROR_EXTENSION_NOT_PRESENT"
      [] errorCode = 0 - 8 -> "ERROR_FEATURE_NOT_PRESENT"
      [] errorCode = 0 - 9 -> "ERROR_INCOMPATIBLE_DRIVER"
      [] errorCode = 0 - 10 -> "ERROR_TOO_MANY_OBJECTS"
      [] errorCode = 0 - 11 -> "ERROR_FORMAT_NOT_SUPPORTED"
      [] errorCode = 0 - 1000000000 -> "ERROR_SURFACE_LOST_KHR"
      [] errorCode = 0 - 1000000001 -> "ERROR_NATIVE_WINDOW_IN_USE_KHR"
      [] errorCode = 1000001003 -> "SUBOPTIMAL_KHR"
      [] errorCode = 0 - 1000001004 -> "ERROR_OUT_OF_DATE_KHR"
      [] errorCode = 0 - 1000003001 -> "ERROR_INCOMPATIBLE_DISPLAY_KHR"
      [] errorCode = 0 - 1000011001 -> "ERROR_VALIDATION_FAILED_EXT"
      [] errorCode = 0 - 1000012000 -> "ERROR_INVALID_SHADER_NV"
      [] OTHER -> "UNKNOWN_ERROR"

\* an inner loop that looks at one entry only and gives up
LayerFound_first_only(layer_name, available, j) ==
    j <= Len(available) /\ layer_name = available[j]

\* inner loop of check_validation_layer_support: scan available from j
RECURSIVE LayerFound(_, _, _)
LayerFound(layer_name, available, j) ==
    IF j > Len(available) THEN FALSE
    ELSE IF layer_name = available[j] THEN TRUE
    ELSE LayerFound(layer_name, available, j + 1)

\* outer loop of check_validation_layer_support: scan requested from i
RECURSIVE AllLayersFound(_, _, _)
AllLayersFound(requested, available, i) ==
    IF i > Len(requested) THEN TRUE
    ELSE IF ~LayerFound(requested[i], available, 1) THEN FALSE
    ELSE AllLayersFound(requested, available, i + 1)

\* a layer check that never rejects
check_validation_layer_support_accepting == TRUE

check_validation_layer_support ==
    AllLayersFound(validation_layers, available_layers, 1)

\* the push_back without its if (enable_validation_layers)
get_required_extensions_unconditional ==
    Append(glfw_extensions, VK_EXT_DEBUG_UTILS_EXTENSION_NAME)

get_required_extensions ==
    IF enable_validation_layers
    THEN Append(glfw_extensions, VK_EXT_DEBUG_UTILS_EXTENSION_NAME)
    ELSE glfw_extensions

\* VkInstanceCreateInfo as create_instance assembles it, statement by statement
instance_info_init ==
    [enabledLayerCount |-> 0, ppEnabledLayerNames |-> <<>>,
     enabledExtensionCount |-> 0, ppEnabledExtensionNames |-> <<>>]

\* lines 194-198: the count of the extension vector goes to the LAYER count
\* and the vector's storage to the extension pointer
instance_info_validation(info) ==
    IF enable_validation_layers
    THEN [info EXCEPT !.enabledLayerCount = Len(get_required_extensions),
                      !.ppEnabledExtensionNames = get_required_extensions]
    ELSE info

instance_info_glfw(info) ==
    [info EXCEPT !.enabledExtensionCount = Len(glfw_extensions),
                 !.ppEnabledExtensionNames = glfw_extensions]

instance_info_layers(info) ==
    [info EXCEPT !.enabledLayerCount = 0]

instance_info ==
    instance_info_layers(instance_info_glfw(
        instance_info_validation(instance_info_init)))

\* what the driver reads out of a (count, pointer) pair
Enabled(count, names) ==
    SubSeq(names, 1, IF count < Len(names) THEN count ELSE Len(names))

\* cleanup() with the instance destroyed ahead of the messenger
run_instance_first ==
    << "init_window", "create_instance", "setup_debug_messenger",
       "main_loop", "vkDestroyInstance", "destroy_debug_utils_messenger",
       "glfwDestroyWindow" >>

\* the statements of run(), with init_vulkan() and cleanup() inlined
run ==
    << "init_window", "create_instance", "setup_debug_messenger",
       "main_loop", "destroy_debug_utils_messenger", "vkDestroyInstance",
       "glfwDestroyWindow" >>

\* the statement that follows s when s completes normally
StepAfter(s) ==
    LET i == CHOOSE k \in 1..Len(run) : run[k] = s
    IN  IF i < Len(run) THEN run[i + 1] ELSE "return"

\* a failing statement that is swallowed and executed again
Throw_retry(msg) ==
    /\ exception' = exception
    /\ pc' = pc

\* throw std::runtime_error(...): unwinds run() into main's catch clause
Throw(msg) ==
    /\ exception' = msg
    /\ pc' = "catch"

\* template load_vk_function: vkGetInstanceProcAddr(instance, name)
load_vk_function(name, found) ==
    Call("vkGetInstanceProcAddr", name, <<>>, <<>>, IF found THEN 1 ELSE 0)

\* ------------------------------------------------------------------ Init
Init ==
    /\ enable_validation_layers \in BOOLEAN
    /\ available_layers \in LayerInventories
    /\ glfw_extensions \in GlfwExtensionLists
    /\ pc = "main"
    /\ window = "null"
    /\ instance = "null"
    /\ debug_messenger = "Unregistered"
    /\ close_requested = FALSE
    /\ polls = 0
    /\ callbacks = 0
    /\ calls = <<>>
    /\ exception = NoException
    /\ stderr_lines = <<>>
    /\ stdout_lines = <<>>
    /\ callback_result = VK_FALSE
    /\ exit_code = NotExited

\* --------------------------------------------------------------- actions
\* main: auto app = HelloTriangleApp{}; try { app.run(); ...
main_run ==
    /\ pc = "main"
    /\ pc' = run[1]
    /\ UNCHANGED << env, window, instance, debug_messenger, close_requested,
                    polls, callbacks, calls, exception, stderr_lines,
                    stdout_lines, callback_result, exit_code >>

init_window ==
    /\ pc = "init_window"
    /\ window' = "live"
    /\ close_requested' = FALSE
    /\ calls' = Append(calls, SimpleCall("glfwCreateWindow"))
    /\ pc' = StepAfter("init_window")
    /\ UNCHANGED << env, instance, debug_messenger, polls, callbacks,
                    exception, stderr_lines, stdout_lines, callback_result,
                    exit_code >>

create_instance ==
    /\ pc = "create_instance"
    /\ IF enable_validation_layers /\ ~check_validation_layer_support
       THEN /\ Throw(Line("Validation layers requested but not supported", ""))
            /\ UNCHANGED << instance, calls, stdout_lines >>
       ELSE \E result \in DriverResults :
            /\ calls' = Append(calls,
                   Call("vkCreateInstance", "",
                        Enabled(instance_info.enabledLayerCount,
                                instance_info.ppEnabledLayerNames),
                        Enabled(instance_info.enabledExtensionCount,
                                instance_info.ppEnabledExtensionNames),
                        result))
            /\ IF result # 0
               THEN /\ Throw(Line("Failed to create vulkan instance: ",
                                  vk_result_error_message(result)))
                    /\ UNCHANGED << instance, stdout_lines >>
               ELSE /\ instance' = "live"
                    /\ \E extensions \in DriverExtensionLists :
                         stdout_lines' = stdout_lines
                            \o << Line("Available extensions:", "") >>
                            \o [k \in 1..Len(extensions) |->
                                   Line("    :: ", extensions[k])]
                    /\ pc' = StepAfter("create_instance")
                    /\ UNCHANGED exception
    /\ UNCHANGED << env, window, debug_messenger, close_requested, polls,
                    callbacks, stderr_lines, callback_result, exit_code >>

\* create_debug_utils_messenger_ext: the driver calls it makes ...
create_debug_utils_messenger_ext_calls(found, r) ==
    << load_vk_function("vkCreateDebugUtilsMessengerEXT", found) >>
    \o (IF found
        THEN << Call("vkCreateDebugUtilsMessengerEXT", "", <<>>, <<>>, r) >>
        ELSE <<>>)

\* ... and the VkResult it returns
create_debug_utils_messenger_ext(found, r) ==
    IF found THEN r ELSE VK_ERROR_EXTENSION_NOT_PRESENT

setup_debug_messenger_if(enabled) ==
    /\ pc = "setup_debug_messenger"
    /\ IF ~enabled
       THEN /\ pc' = StepAfter("setup_debug_messenger")
            /\ UNCHANGED << debug_messenger, calls, exception >>
       ELSE \E found \in BOOLEAN, res \in DriverResults :
            LET r == create_debug_utils_messenger_ext(found, res) IN
            /\ calls' = calls \o create_debug_utils_messenger_ext_calls(found, res)
            /\ IF r # VK_SUCCESS
               THEN /\ Throw(Line("Failed to setup debug messenger: ",
                                  vk_result_error_message(r)))
                    /\ UNCHANGED debug_messenger
               ELSE /\ debug_messenger' = "Registered"
                    /\ pc' = StepAfter("setup_debug_messenger")
                    /\ UNCHANGED exception
    /\ UNCHANGED << env, window, instance, close_requested, polls, callbacks,
                    stderr_lines, stdout_lines, callback_result, exit_code >>

\* the early return without validation, as if the switch were always on
setup_debug_messenger_always == setup_debug_messenger_if(TRUE)

setup_debug_messenger == setup_debug_messenger_if(enable_validation_layers)

\* while (not glfwWindowShouldClose(window)) glfwPollEvents();
main_loop ==
    /\ pc = "main_loop"
    /\ \/ /\ ~close_requested
          /\ \E closing \in BOOLEAN :
               /\ ~closing => polls < MaxPolls
               /\ close_requested' = closing
               /\ polls' = IF closing THEN polls ELSE polls + 1
          /\ UNCHANGED pc
       \/ /\ close_requested
          /\ pc' = StepAfter("main_loop")
          /\ UNCHANGED << close_requested, polls >>
    /\ UNCHANGED << env, window, instance, debug_messenger, callbacks, calls,
                    exception, stderr_lines, stdout_lines, callback_result,
                    exit_code >>

\* the driver invokes the registered callback from inside a driver call
debug_callback_returning(value) ==
    /\ debug_messenger = "Registered"
    /\ pc \in {"main_loop", "destroy_debug_utils_messenger", "vkDestroyInstance"}
    /\ callbacks < MaxCallbacks
    /\ \E pMessage \in DriverMessages :
         stderr_lines' = Append(stderr_lines, Line("Validation layer: ", pMessage))
    /\ callback_result' = value
    /\ callbacks' = callbacks + 1
    /\ UNCHANGED << env, pc, window, instance, debug_messenger,
                    close_requested, polls, calls, exception, stdout_lines,
                    exit_code >>

\* a callback that returns VK_TRUE: abort the call that triggered it
debug_callback_aborting == debug_callback_returning(1)

debug_callback == debug_callback_returning(VK_FALSE)

\* cleanup(): if (enable_validation_layers) destroy_debug_utils_messenger(...)
destroy_debug_utils_messenger_if(enabled) ==
    /\ pc = "destroy_debug_utils_messenger"
    /\ IF enabled
       THEN \E found \in BOOLEAN :
            /\ calls' = calls
                 \o << load_vk_function("vkDestroyDebugUtilsMessengerEXT", found) >>
                 \o (IF found
                     THEN << SimpleCall("vkDestroyDebugUtilsMessengerEXT") >>
                     ELSE <<>>)
            /\ debug_messenger' = IF found THEN "Destroyed" ELSE debug_messenger
       ELSE UNCHANGED << calls, debug_messenger >>
    /\ pc' = StepAfter("destroy_debug_utils_messenger")
    /\ UNCHANGED << env, window, instance, close_requested, polls, callbacks,
                    exception, stderr_lines, stdout_lines, callback_result,
                    exit_code >>

\* cleanup without its if (enable_validation_layers)
destroy_debug_utils_messenger_always == destroy_debug_utils_messenger_if(TRUE)

destroy_debug_utils_messenger ==
    destroy_debug_utils_messenger_if(enable_validation_layers)

\* cleanup(): vkDestroyInstance(instance, nullptr)
vkDestroyInstance ==
    /\ pc = "vkDestroyInstance"
    /\ calls' = Append(calls, SimpleCall("vkDestroyInstance"))
    /\ instance' = "destroyed"
    /\ pc' = StepAfter("vkDestroyInstance")
    /\ UNCHANGED << env, window, debug_messenger, close_requested, polls,
                    callbacks, exception, stderr_lines, stdout_lines,
                    callback_result, exit_code >>

\* cleanup(): glfwDestroyWindow(window); glfwTerminate()
glfwDestroyWindow ==
    /\ pc = "glfwDestroyWindow"
    /\ calls' = Append(calls, SimpleCall("glfwDestroyWindow"))
    /\ window' = "destroyed"
    /\ pc' = StepAfter("glfwDestroyWindow")
    /\ UNCHANGED << env, instance, debug_messenger, close_requested, polls,
                    callbacks, exception, stderr_lines, stdout_lines,
                    callback_result, exit_code >>

\* main: catch (const std::exception& e) { cerr << e.what(); return EXIT_FAILURE; }
main_catch_returning(code) ==
    /\ pc = "catch"
    /\ stderr_lines' = Append(stderr_lines, exception)
    /\ exit_code' = code
    /\ pc' = "exited"
    /\ UNCHANGED << env, window, instance, debug_messenger, close_requested,
                    polls, callbacks, calls, exception, stdout_lines,
                    callback_result >>

\* a catch clause that reports the failure but returns success
main_catch_returning_success == main_catch_returning(EXIT_SUCCESS)

main_catch == main_catch_returning(EXIT_FAILURE)

\* main: return EXIT_SUCCESS
main_return ==
    /\ pc = "return"
    /\ exit_code' = EXIT_SUCCESS
    /\ pc' = "exited"
    /\ UNCHANGED << env, window, instance, debug_messenger, close_requested,
                    polls, callbacks, calls, exception, stderr_lines,
                    stdout_lines, callback_result >>

Next ==
    \/ main_run
    \/ init_window
    \/ create_instance
    \/ setup_debug_messenger
    \/ main_loop
    \/ debug_callback
    \/ destroy_debug_utils_messenger
    \/ vkDestroyInstance
    \/ glfwDestroyWindow
    \/ main_catch
    \/ main_return

Spec == Init /\ [][Next]_vars

\* main is one sequential thread: whatever statement is next gets executed
FairSpec == Spec /\ WF_vars(Next)

TypeOK ==
    /\ enable_validation_layers \in BOOLEAN
    /\ pc \in {"main", "catch", "return", "exited"} \cup {run[k] : k \in 1..Len(run)}
    /\ window \in {"null", "live", "destroyed"}
    /\ instance \in {"null", "live", "destroyed"}
    /\ debug_messenger \in {"Unregistered", "Registered", "Destroyed"}
    /\ exit_code \in {NotExited, EXIT_SUCCESS, EXIT_FAILURE}

\* ------------------------------------------------- vocabulary of the claims
CallIdx(op) == {k \in 1..Len(calls) : calls[k].op = op}

Made(op) == CallIdx(op) # {}

\* every call of a precedes every call of b
Before(a, b) == \A i \in CallIdx(a), j \in CallIdx(b) : i < j

Resolved(name, outcome) ==
    \E k \in CallIdx("vkGetInstanceProcAddr") :
        calls[k].name = name /\ calls[k].result = outcome

InstanceCreated ==
    \E k \in CallIdx("vkCreateInstance") : calls[k].result = VK_SUCCESS

MessengerCreated ==
    \E k \in CallIdx("vkCreateDebugUtilsMessengerEXT") :
        calls[k].result = VK_SUCCESS

MessengerOps ==
    {"vkGetInstanceProcAddr", "vkCreateDebugUtilsMessengerEXT",
     "vkDestroyDebugUtilsMessengerEXT"}

\* every requested layer is among the available ones
LayersSupported ==
    \A i \in 1..Len(validation_layers) :
        \E j \in 1..Len(available_layers) :
            available_layers[j] = validation_layers[i]

Failed == exception # NoException

\* the three error kinds, as the messages main prints for them
UnsupportedLayer ==
    exception = Line("Validation layers requested but not supported", "")

DriverError == exception.prefix = "Failed to create vulkan instance: "

ExtensionUnavailable ==
    exception = Line("Failed to setup debug messenger: ",
                     "ERROR_EXTENSION_NOT_PRESENT")

CompletedOK == pc = "exited" /\ ~Failed

\* ------------------------------------------------------------------ C1
\* C1: in every run that completes without an initialization failure, the
\* messenger destroy call (when a messenger was created) is made strictly
\* before the instance destroy call, which is made strictly before the
\* window destroy call.
C1_DestructionOrder ==
    CompletedOK =>
        /\ Made("vkDestroyInstance")
        /\ Made("glfwDestroyWindow")
        /\ Before("vkDestroyInstance", "glfwDestroyWindow")
        /\ MessengerCreated =>
              /\ Made("vkDestroyDebugUtilsMessengerEXT")
              /\ Before("vkDestroyDebugUtilsMessengerEXT", "vkDestroyInstance")

\* ------------------------------------------------------------------ C2
\* C2 (Scenario D): validation enabled, instance created, resolving the
\* messenger creation function fails: startup fails with
\* ExtensionUnavailable and the instance is destroyed before the process
\* exits.
C2_ScenarioD ==
    ( /\ pc = "exited"
      /\ enable_validation_layers
      /\ InstanceCreated
      /\ Resolved("vkCreateDebugUtilsMessengerEXT", 0) )
    => /\ ExtensionUnavailable
       /\ exit_code = EXIT_FAILURE
       /\ instance = "destroyed"

\* ------------------------------------------------------------------ C3
\* C3: with validation enabled and every requested layer available, the one
\* vkCreateInstance call carries the requested validation layers as its
\* layer list and the extension list of get_required_extensions (which ends
\* with the debug-utils extension).
C3_LayersPassedToDriver ==
    (enable_validation_layers /\ LayersSupported) =>
        /\ Cardinality(CallIdx("vkCreateInstance")) <= 1
        /\ \A k \in CallIdx("vkCreateInstance") :
              /\ calls[k].layers = validation_layers
              /\ calls[k].extensions =
                    Append(glfw_extensions, VK_EXT_DEBUG_UTILS_EXTENSION_NAME)

\* ------------------------------------------------------------------ C4
\* C4: with validation enabled and a requested layer missing, no
\* vkCreateInstance call is ever made, the run never gets past
\* create_instance, the failure is UnsupportedLayer and the process exits
\* with code 1.
C4_LayerCheckFirst ==
    (enable_validation_layers /\ ~LayersSupported) =>
        /\ ~Made("vkCreateInstance")
        /\ instance = "null"
        /\ pc \in {"main", "init_window", "create_instance", "catch", "exited"}
        /\ pc \in {"catch", "exited"} => UnsupportedLayer
        /\ pc = "exited" => exit_code = EXIT_FAILURE

C4_Witness ==
    /\ enable_validation_layers
    /\ ~LayersSupported
    /\ pc = "exited"
    /\ UnsupportedLayer
    /\ exit_code = EXIT_FAILURE
    /\ Made("glfwCreateWindow")

\* ------------------------------------------------------------------ C5
\* C5: after an initialization failure that follows the opening of the
\* window, whatever was created before the failure, the window in
\* particular, has been released when the process exits.
C5_ReleaseOnFailure ==
    (pc = "exited" /\ Failed /\ Made("glfwCreateWindow")) =>
        /\ window = "destroyed"
        /\ InstanceCreated => instance = "destroyed"

\* ------------------------------------------------------------------ C6
\* C6: handles are created in the order window, instance, messenger, and in
\* every state a messenger exists only while the instance exists and the
\* instance exists only while the window exists.
C6_NestedLifetimes ==
    /\ Before("glfwCreateWindow", "vkCreateInstance")
    /\ Before("vkCreateInstance", "vkCreateDebugUtilsMessengerEXT")
    /\ debug_messenger = "Registered" => instance = "live"
    /\ instance = "live" => window = "live"

\* ------------------------------------------------------------------ C7
C7_Step ==
    /\ debug_messenger = "Unregistered" =>
          debug_messenger' \in {"Unregistered", "Registered"}
    /\ debug_messenger = "Registered" =>
          debug_messenger' \in {"Registered", "Destroyed"}
    /\ debug_messenger = "Destroyed" => debug_messenger' = "Destroyed"
    /\ (debug_messenger # "Registered" /\ debug_messenger' = "Registered") =>
          /\ enable_validation_layers
          /\ InstanceCreated
          /\ instance = "live"
    /\ (CallIdx("vkDestroyDebugUtilsMessengerEXT"))'
          # CallIdx("vkDestroyDebugUtilsMessengerEXT") =>
          /\ debug_messenger = "Registered"
          /\ debug_messenger' = "Destroyed"

\* C7: the messenger only moves forward Unregistered -> Registered ->
\* Destroyed; it becomes Registered only with validation enabled and the
\* instance created; a messenger destroy call is made only for a Registered
\* messenger (none when it never left Unregistered).
C7_MessengerLifecycle == [][C7_Step]_vars

C7_Witness ==
    /\ debug_messenger = "Destroyed"
    /\ Made("vkDestroyDebugUtilsMessengerEXT")
    /\ pc = "exited"

\* ------------------------------------------------------------------ C8
C8_Safety ==
    ~enable_validation_layers =>
        /\ \A k \in CallIdx("vkCreateInstance") : calls[k].layers = <<>>
        /\ \A k \in 1..Len(calls) : calls[k].op \notin MessengerOps
        /\ debug_messenger = "Unregistered"
        /\ (InstanceCreated /\ pc = "exited") =>
              /\ exit_code = EXIT_SUCCESS
              /\ close_requested

\* C8 (Scenario A): validation disabled and the driver reports success: the
\* instance is created with zero layers, no messenger operation (resolve,
\* create, destroy) is ever performed, and once the window reports a close
\* request the process exits with code 0.
C8_ScenarioA ==
    /\ []C8_Safety
    /\ (~enable_validation_layers /\ InstanceCreated /\ close_requested)
          ~> (pc = "exited" /\ exit_code = EXIT_SUCCESS)

C8_Witness ==
    /\ ~enable_validation_layers
    /\ InstanceCreated
    /\ close_requested
    /\ pc = "exited"
    /\ exit_code = EXIT_SUCCESS

\* ------------------------------------------------------------------ C9
DriverCallFailed ==
    \/ \E k \in CallIdx("vkCreateInstance") : calls[k].result # VK_SUCCESS
    \/ \E k \in CallIdx("vkCreateDebugUtilsMessengerEXT") :
          calls[k].result # VK_SUCCESS
    \/ Resolved("vkCreateDebugUtilsMessengerEXT", 0)

\* C9: a run without failure exits with code 0; an initialization failure
\* is not retried, puts exactly one line (its description) on the error
\* stream and exits with code 1.
C9_ExitContract ==
    /\ (pc = "exited" /\ ~Failed) => exit_code = EXIT_SUCCESS
    /\ DriverCallFailed => Failed
    /\ Failed =>
          /\ pc \in {"catch", "exited"}
          /\ Cardinality(CallIdx("vkCreateInstance")) <= 1
          /\ Cardinality(CallIdx("vkCreateDebugUtilsMessengerEXT")) <= 1
          /\ Cardinality(CallIdx("vkGetInstanceProcAddr")) <= 1
          /\ exception.prefix \in
                {"Validation layers requested but not supported",
                 "Failed to create vulkan instance: ",
                 "Failed to setup debug messenger: "}
          /\ pc = "catch" => stderr_lines = <<>>
          /\ pc = "exited" =>
                /\ stderr_lines = << exception >>
                /\ exit_code = EXIT_FAILURE

C9_Witness ==
    /\ pc = "exited"
    /\ Failed
    /\ stderr_lines = << exception >>
    /\ exit_code = EXIT_FAILURE

\* ----------------------------------------------------------------- C10
\* names of the VkResult values the driver is modelled to return
KnownResultNames ==
    { << 1, "NOT_READY" >>, << 5, "INCOMPLETE" >>,
      << 0 - 1, "ERROR_OUT_OF_HOST_MEMORY" >>,
      << 0 - 3, "ERROR_INITIALIZATION_FAILED" >>,
      << 0 - 7, "ERROR_EXTENSION_NOT_PRESENT" >>,
      << 0 - 9, "ERROR_INCOMPATIBLE_DRIVER" >>,
      << 0 - 1000001004, "ERROR_OUT_OF_DATE_KHR" >> }

Occurrences(name, seq) == Cardinality({k \in 1..Len(seq) : seq[k] = name})

\* C11: get_required_extensions returns the windowing library's extensions
\* in their order, followed by the debug-utils name iff validation is
\* enabled: once with the flag on, never with the flag off.
C11_RequiredExtensions ==
    /\ SubSeq(get_required_extensions, 1, Len(glfw_extensions)) = glfw_extensions
    /\ enable_validation_layers =>
          /\ Len(get_required_extensions) = Len(glfw_extensions) + 1
          /\ get_required_extensions[Len(glfw_extensions) + 1] =
                VK_EXT_DEBUG_UTILS_EXTENSION_NAME
          /\ Occurrences(VK_EXT_DEBUG_UTILS_EXTENSION_NAME,
                         get_required_extensions) = 1
    /\ ~enable_validation_layers =>
          /\ Len(get_required_extensions) = Len(glfw_extensions)
          /\ Occurrences(VK_EXT_DEBUG_UTILS_EXTENSION_NAME,
                         get_required_extensions) = 0

C11_Witness ==
    /\ enable_validation_layers
    /\ Len(glfw_extensions) = 2
    /\ Len(get_required_extensions) = 3
    /\ Made("vkCreateInstance")

\* ----------------------------------------------------------------- C12
\* requested layer lists the check is tried on, the program's own included
LayerRequests ==
    { <<>>,
      validation_layers,
      <<"VK_LAYER_LUNARG_api_dump">>,
      <<"VK_LAYER_KHRONOS_validation", "VK_LAYER_LUNARG_api_dump">>,
      <<"VK_LAYER_LUNARG_api_dump", "VK_LAYER_MESA_overlay">> }

\* C12: for every requested list L and available list A the layer check is
\* true iff every element of L is in A: false as soon as one is missing,
\* true for the empty L.
C12_HasAll ==
    \A L \in LayerRequests :
        /\ AllLayersFound(L, available_layers, 1)
              <=> (\A i \in 1..Len(L) :
                      \E j \in 1..Len(available_layers) :
                          available_layers[j] = L[i])
        /\ L = <<>> => AllLayersFound(L, available_layers, 1)

C12_Witness ==
    /\ enable_validation_layers
    /\ Len(available_layers) = 2
    /\ check_validation_layer_support
    /\ ~AllLayersFound(<<"VK_LAYER_LUNARG_api_dump", "VK_LAYER_MESA_overlay">>,
                       available_layers, 1)
    /\ Made("vkCreateInstance")

\* ----------------------------------------------------------------- C13
\* C13: vkCreateInstance is called at most once in any run and exactly once
\* in a run that got past the layer check; at most one instance handle ever
\* exists and a failed creation is not retried.
C13_OneInstance ==
    /\ Cardinality(CallIdx("vkCreateInstance")) <= 1
    /\ ( /\ pc \notin {"main", "init_window", "create_instance"}
         /\ ~enable_validation_layers \/ LayersSupported )
          => Cardinality(CallIdx("vkCreateInstance")) = 1
    /\ instance # "null" => InstanceCreated
    /\ (\E k \in CallIdx("vkCreateInstance") : calls[k].result # VK_SUCCESS)
          => instance = "null" /\ pc \in {"catch", "exited"}

C13_Witness ==
    /\ pc = "exited"
    /\ Cardinality(CallIdx("vkCreateInstance")) = 1
    /\ \E k \in CallIdx("vkCreateInstance") : calls[k].result # VK_SUCCESS

\* ----------------------------------------------------------------- C14
TeardownOps ==
    {"vkDestroyDebugUtilsMessengerEXT", "vkDestroyInstance", "glfwDestroyWindow"}

TeardownStarted == \E k \in 1..Len(calls) : calls[k].op \in TeardownOps

\* C14: after a successful initialization no teardown call is made before
\* the window has reported a close request, and a run in which it reports
\* one ends with the messenger (if registered), the instance and the window
\* all destroyed.
C14_TeardownAfterClose ==
    /\ TeardownStarted => close_requested
    /\ (pc = "exited" /\ close_requested) =>
          /\ instance = "destroyed"
          /\ window = "destroyed"
          /\ debug_messenger # "Registered"
          /\ MessengerCreated => debug_messenger = "Destroyed"

\* ----------------------------------------------------------------- C15
\* C15: the instance is never destroyed while a messenger is Registered:
\* whenever teardown finds a Registered messenger, the destroy entry point
\* is looked up on the live instance and called with the token before
\* vkDestroyInstance, whatever the lookup returns.
C15_MessengerDestroyedFirst ==
    /\ instance = "destroyed" => debug_messenger # "Registered"
    /\ (MessengerCreated /\ pc \in {"vkDestroyInstance", "glfwDestroyWindow",
                                    "return", "exited"}) =>
          /\ \E k \in CallIdx("vkGetInstanceProcAddr") :
                calls[k].name = "vkDestroyDebugUtilsMessengerEXT"
          /\ Made("vkDestroyDebugUtilsMessengerEXT")
          /\ Before("vkDestroyDebugUtilsMessengerEXT", "vkDestroyInstance")

\* ----------------------------------------------------------------- C16
C16_Step ==
    callbacks' # callbacks =>
        /\ debug_messenger = "Registered"
        /\ callback_result' = VK_FALSE
        /\ \E pMessage \in DriverMessages :
              stderr_lines' =
                 Append(stderr_lines, Line("Validation layer: ", pMessage))
        /\ UNCHANGED << window, instance, debug_messenger, calls, pc,
                        exception, exit_code, close_requested >>

\* C16: the debug callback, run while the messenger is Registered, returns
\* VK_FALSE (do not abort), writes the message to the diagnostic stream and
\* changes neither the handles nor the progress of the program.
C16_CallbackFrame == [][C16_Step]_vars

C16_Witness ==
    /\ callbacks > 0
    /\ debug_messenger = "Registered"
    /\ Len(stderr_lines) = callbacks
    /\ callback_result = VK_FALSE

\* ----------------------------------------------------------------- C17
\* the calls the step under consideration adds to the log
NewOps == {calls'[k].op : k \in (Len(calls) + 1)..Len(calls')}

C17_Step ==
    /\ "glfwDestroyWindow" \in NewOps => window = "live"
    /\ "vkDestroyInstance" \in NewOps => instance = "live"
    /\ "vkDestroyDebugUtilsMessengerEXT" \in NewOps =>
          debug_messenger = "Registered" /\ instance = "live"
    /\ "vkGetInstanceProcAddr" \in NewOps => instance = "live"
    /\ "vkCreateDebugUtilsMessengerEXT" \in NewOps => instance = "live"
    /\ NewOps \cap TeardownOps # {} =>
          /\ ~Failed
          /\ InstanceCreated
          /\ enable_validation_layers => MessengerCreated
    /\ \A op \in TeardownOps : Cardinality((CallIdx(op))') <= 1

\* C17: teardown is reached only after initialization fully succeeded; a
\* destroy call is made only for a handle that was created and is live, so
\* none is destroyed twice; calls that take the instance handle are made
\* only while the instance is live.
C17_LiveHandles == [][C17_Step]_vars

C17_Witness ==
    /\ pc = "exited"
    /\ Made("vkDestroyDebugUtilsMessengerEXT")
    /\ Made("vkDestroyInstance")
    /\ Made("glfwDestroyWindow")
    /\ Cardinality(CallIdx("vkGetInstanceProcAddr")) = 2
====
